---- MODULE Spec2Model ----
(***************************************************************************)
(* Model of the /process-audio/ request handler of main.py.                *)
(*                                                                         *)
(* Every request runs process_audio once.  The handler's blocking calls    *)
(* (open, copy, read, the transcription call, the two generate_content     *)
(* calls, os.path.exists, os.remove) are the steps of the model.  Requests *)
(* share the directory temp/ through the file system; steps of different   *)
(* requests interleave freely, which is what several worker processes      *)
(* serving the same app give (one uvicorn event loop runs a handler        *)
(* without yielding, which is one of the interleavings).                   *)
(*                                                                         *)
(* Texts are sequences of tokens, paths are sequences of components, file  *)
(* contents are named by the request whose upload they are.                *)
(***************************************************************************)
EXTENDS Naturals, Sequences, FiniteSets

\* ------------------------------------------------------------------ bounds
\* Longest transcript the transcription provider returns, in words.
MaxWords == 2

\* ------------------------------------------------------------------ inputs
Reqs == {"r1", "r2"}

\* Filenames a client can send in the multipart upload (always a string
\* there), as lists of path components.
Filenames == { <<"a.wav">>, <<"b.wav">>, <<".">>, <<"nodir", "a.wav">> }

\* A text that has not been produced (yet).
Nil == <<"nil">>

\* Tokens of a generated reply: a word, white space, and the two literal
\* markers the specification speaks of.
StartMarker == "[S]"
EndMarker == "[E]"
Blank == "_"

Transcripts == { [i \in 1..n |-> "t"] : n \in 1..MaxWords }

Replies == { <<Blank, "w", "w", Blank>>,
             <<StartMarker, "w", EndMarker>>,
             <<"w", StartMarker, "w", "w", EndMarker, Blank>> }

\* str(e) of the exceptions the two providers raise.
Msgs == { <<"timeout">>, <<"quota">> }

\* ------------------------------------------------------------ file system
BASE_TEMP == <<"temp">>

RECURSIVE DropDots(_)
DropDots(parts) ==
    IF parts = <<>> THEN <<>>
    ELSE IF Head(parts) = "." THEN DropDots(Tail(parts))
    ELSE <<Head(parts)>> \o DropDots(Tail(parts))

\* pathlib's "/" : the components are appended, "." components vanish.
JoinPath(base, name) == base \o DropDots(name)

Parent(p) == SubSeq(p, 1, Len(p) - 1)

\* The paths the handler can name, and the directories they would lie in.
Paths ==
    LET named == { JoinPath(BASE_TEMP, f) : f \in Filenames }
    IN  named \cup { Parent(p) : p \in named \ {BASE_TEMP} }

VARIABLES
    pc,          \* where each request's handler stands
    filename,    \* file.filename of each request
    path,        \* temp_filename, once computed
    fs,          \* directory entries: "absent", "dir", or the file (inode) there
    inode,       \* content of the file created by each request
    fd,          \* the file a request holds open
    opened,      \* the request's open(temp_filename, "wb") succeeded
    copied,      \* the request's copy of the upload succeeded
    sent,        \* the bytes given to the transcription provider
    raw,         \* raw_text
    polishReply, \* response.text of the polish call
    polished,    \* polished_text
    sumInput,    \* the text generate_summary was called with
    sumReply,    \* response.text of the summary call
    sumExc,      \* str(e) of the exception of the summary call
    ret,         \* the value the try/except part is about to return
    result,      \* how the handler ended
    atEnd,       \* what was at temp_filename when the handler ended
    log          \* the calls made so far, in order

vars == << pc, filename, path, fs, inode, fd, opened, copied, sent, raw, polishReply,
           polished, sumInput, sumReply, sumExc, ret, result, atEnd, log >>

\* ---------------------------------------------------------------- payloads
NoResult == [kind |-> "none"]

Returned(body) == [kind |-> "returned", body |-> body]

Raised(exc) == [kind |-> "raised", exc |-> exc]

OkPayload(text, summary) == [original_text |-> text, summary |-> summary]

\* Mutant: the error payload also carries a summary.
ErrorPayloadWithSummary(msg) == [error |-> msg, summary |-> msg]

ErrorPayload(msg) == [error |-> msg]

\* ------------------------------------------------------------ pure helpers
IsBlank(tok) == tok = Blank

RECURSIVE LStrip(_)
LStrip(s) ==
    IF s # <<>> /\ IsBlank(Head(s)) THEN LStrip(Tail(s)) ELSE s

RECURSIVE RStrip(_)
RStrip(s) ==
    IF s # <<>> /\ IsBlank(s[Len(s)]) THEN RStrip(SubSeq(s, 1, Len(s) - 1)) ELSE s

\* str.strip()
Strip(s) == RStrip(LStrip(s))

\* The marker-delimited reading of a reply that the specification describes:
\* the tokens after the first start marker and before the next end marker.
IndexOf(s, tok, from) ==
    IF \E i \in from..Len(s) : s[i] = tok
    THEN CHOOSE i \in from..Len(s) : s[i] = tok /\ \A j \in from..(i - 1) : s[j] # tok
    ELSE 0

HasMarkers(s) ==
    /\ IndexOf(s, StartMarker, 1) > 0
    /\ IndexOf(s, EndMarker, IndexOf(s, StartMarker, 1) + 1) > 0

Between(s) ==
    SubSeq(s, IndexOf(s, StartMarker, 1) + 1,
              IndexOf(s, EndMarker, IndexOf(s, StartMarker, 1) + 1) - 1)

\* Mutant: the polish reply is parsed by its markers, the input text being
\* the default.
PolishResultBetween(text, reply) ==
    IF HasMarkers(reply) THEN Between(reply) ELSE text

\* polish_text, the call succeeded: return response.text.strip()
PolishResult(text, reply) == Strip(reply)

\* Mutant: the fallback of polish_text is the empty text.
PolishFallbackEmpty(text) == <<>>

\* polish_text, the call raised: return text
PolishFallback(text) == text

\* Mutant: a summary reply without markers is replaced by a default.
SummaryResultDefault(text, reply) ==
    IF HasMarkers(reply) THEN reply ELSE text

\* generate_summary, the call succeeded: return response.text
SummaryResult(text, reply) == reply

\* Mutant: the fallback of generate_summary is the bare message.
SummaryFallbackBare(msg) == msg

\* generate_summary, the call raised: return f"Error: {str(e)}"
SummaryFallback(msg) == <<"Error: ">> \o msg

\* Mutant: the second request's file gets a name of its own.
TempPathSalted(r) ==
    JoinPath(BASE_TEMP,
             IF r = "r1" \/ filename[r] \notin {<<"a.wav">>, <<"b.wav">>}
             THEN filename[r]
             ELSE IF filename[r] = <<"a.wav">> THEN <<"b.wav">> ELSE <<"a.wav">>)

\* temp_filename = BASE_DIR / "temp" / file.filename
TempPathOf(r) == JoinPath(BASE_TEMP, filename[r])

Exists(p) == fs[p] # "absent"

IsFile(p) == fs[p] \in Reqs

\* --------------------------------------------------------------------- Init
Init ==
    /\ pc = [r \in Reqs |-> "start"]
    /\ filename \in [Reqs -> Filenames]
    /\ path = [r \in Reqs |-> <<>>]
    /\ fs = [p \in Paths |-> IF p = BASE_TEMP THEN "dir" ELSE "absent"]
    /\ inode = [r \in Reqs |-> "none"]
    /\ fd = [r \in Reqs |-> "closed"]
    /\ opened = [r \in Reqs |-> FALSE]
    /\ copied = [r \in Reqs |-> FALSE]
    /\ sent = [r \in Reqs |-> "none"]
    /\ raw = [r \in Reqs |-> Nil]
    /\ polishReply = [r \in Reqs |-> Nil]
    /\ polished = [r \in Reqs |-> Nil]
    /\ sumInput = [r \in Reqs |-> Nil]
    /\ sumReply = [r \in Reqs |-> Nil]
    /\ sumExc = [r \in Reqs |-> Nil]
    /\ ret = [r \in Reqs |-> NoResult]
    /\ result = [r \in Reqs |-> NoResult]
    /\ atEnd = [r \in Reqs |-> "running"]
    /\ log = [r \in Reqs |-> <<>>]

\* ------------------------------------------------------------------ actions
\* except Exception as e: return {"error": str(e)}, and on to the finally.
Except(r, msg) ==
    /\ ret' = [ret EXCEPT ![r] = Returned(ErrorPayload(msg))]
    /\ pc' = [pc EXCEPT ![r] = "finally"]

\* Line 86: the path is computed from the client's filename as it is.
ComputePath(r) ==
    /\ pc[r] = "start"
    /\ path' = [path EXCEPT ![r] = TempPathOf(r)]
    /\ pc' = [pc EXCEPT ![r] = "write_open"]
    /\ UNCHANGED << filename, copied, fs, inode, fd, opened, sent, raw, polishReply,
                    polished, sumInput, sumReply, sumExc, ret, result, atEnd, log >>

\* open(temp_filename, "wb"): creates the file, or truncates the one there.
OpenForWrite(r) ==
    /\ pc[r] = "write_open"
    /\ log' = [log EXCEPT ![r] = Append(@, "write")]
    /\ IF fs[path[r]] = "dir"
       THEN /\ Except(r, <<"IsADirectoryError">>)
            /\ UNCHANGED << fs, inode, fd, opened >>
       ELSE IF fs[Parent(path[r])] # "dir"
       THEN /\ Except(r, <<"FileNotFoundError">>)
            /\ UNCHANGED << fs, inode, fd, opened >>
       ELSE /\ LET f == IF IsFile(path[r]) THEN fs[path[r]] ELSE r
               IN /\ fs' = [fs EXCEPT ![path[r]] = f]
                  /\ inode' = [inode EXCEPT ![f] = "empty"]
                  /\ fd' = [fd EXCEPT ![r] = f]
            /\ opened' = [opened EXCEPT ![r] = TRUE]
            /\ pc' = [pc EXCEPT ![r] = "write_copy"]
            /\ UNCHANGED ret
    /\ UNCHANGED << filename, copied, path, sent, raw, polishReply, polished, sumInput,
                    sumReply, sumExc, result, atEnd >>

\* shutil.copyfileobj(file.file, buffer), then the with block closes the file.
CopyUpload(r) ==
    /\ pc[r] = "write_copy"
    /\ inode' = [inode EXCEPT ![fd[r]] = r]
    /\ fd' = [fd EXCEPT ![r] = "closed"]
    /\ copied' = [copied EXCEPT ![r] = TRUE]
    /\ pc' = [pc EXCEPT ![r] = "read_open"]
    /\ UNCHANGED << filename, path, fs, opened, sent, raw, polishReply, polished,
                    sumInput, sumReply, sumExc, ret, result, atEnd, log >>

\* The copy raises (an I/O error) after part of the upload was written.
CopyFails(r) ==
    /\ pc[r] = "write_copy"
    /\ inode' = [inode EXCEPT ![fd[r]] = "partial"]
    /\ fd' = [fd EXCEPT ![r] = "closed"]
    /\ Except(r, <<"OSError">>)
    /\ UNCHANGED << filename, copied, path, fs, opened, sent, raw, polishReply, polished,
                    sumInput, sumReply, sumExc, result, atEnd, log >>

\* open(temp_filename, "rb")
OpenForRead(r) ==
    /\ pc[r] = "read_open"
    /\ IF IsFile(path[r])
       THEN /\ fd' = [fd EXCEPT ![r] = fs[path[r]]]
            /\ pc' = [pc EXCEPT ![r] = "transcribe"]
            /\ UNCHANGED ret
       ELSE /\ Except(r, <<"FileNotFoundError">>)
            /\ UNCHANGED fd
    /\ UNCHANGED << filename, copied, path, fs, inode, opened, sent, raw, polishReply,
                    polished, sumInput, sumReply, sumExc, result, atEnd, log >>

\* file_stream.read() and groq_client.audio.transcriptions.create(...): the
\* call returns a transcript.
TranscribeOk(r) ==
    /\ pc[r] = "transcribe"
    /\ sent' = [sent EXCEPT ![r] = inode[fd[r]]]
    /\ fd' = [fd EXCEPT ![r] = "closed"]
    /\ log' = [log EXCEPT ![r] = Append(@, "transcribe")]
    /\ \E t \in Transcripts : raw' = [raw EXCEPT ![r] = t]
    /\ pc' = [pc EXCEPT ![r] = "polish"]
    /\ UNCHANGED << filename, copied, path, fs, inode, opened, polishReply, polished,
                    sumInput, sumReply, sumExc, ret, result, atEnd >>

\* Mutant: a failed transcription is passed over, the handler goes on to the
\* polish call with an empty transcript.
TranscribeFailsGoesOn(r) ==
    /\ pc[r] = "transcribe"
    /\ sent' = [sent EXCEPT ![r] = inode[fd[r]]]
    /\ fd' = [fd EXCEPT ![r] = "closed"]
    /\ log' = [log EXCEPT ![r] = Append(@, "transcribe")]
    /\ pc' = [pc EXCEPT ![r] = "polish"]
    /\ UNCHANGED << filename, copied, path, fs, inode, opened, raw, polishReply,
                    polished, sumInput, sumReply, sumExc, ret, result, atEnd >>

\* The transcription call raises.
TranscribeFails(r) ==
    /\ pc[r] = "transcribe"
    /\ sent' = [sent EXCEPT ![r] = inode[fd[r]]]
    /\ fd' = [fd EXCEPT ![r] = "closed"]
    /\ log' = [log EXCEPT ![r] = Append(@, "transcribe")]
    /\ \E m \in Msgs : Except(r, m)
    /\ UNCHANGED << filename, copied, path, fs, inode, opened, raw, polishReply, polished,
                    sumInput, sumReply, sumExc, result, atEnd >>

\* polish_text(raw_text), generate_content returns a reply.
PolishOk(r) ==
    /\ pc[r] = "polish"
    /\ log' = [log EXCEPT ![r] = Append(@, "polish")]
    /\ \E reply \in Replies :
          /\ polishReply' = [polishReply EXCEPT ![r] = reply]
          /\ polished' = [polished EXCEPT ![r] = PolishResult(raw[r], reply)]
    /\ pc' = [pc EXCEPT ![r] = "summary"]
    /\ UNCHANGED << filename, copied, path, fs, inode, fd, opened, sent, raw, sumInput,
                    sumReply, sumExc, ret, result, atEnd >>

\* Mutant: polish_text lets the exception through to the handler's except.
PolishFailsPropagates(r) ==
    /\ pc[r] = "polish"
    /\ log' = [log EXCEPT ![r] = Append(@, "polish")]
    /\ \E m \in Msgs : Except(r, m)
    /\ UNCHANGED << filename, copied, path, fs, inode, fd, opened, sent, raw,
                    polishReply, polished, sumInput, sumReply, sumExc, result,
                    atEnd >>

\* polish_text(raw_text), generate_content raises: the bare except.
PolishFails(r) ==
    /\ pc[r] = "polish"
    /\ log' = [log EXCEPT ![r] = Append(@, "polish")]
    /\ polished' = [polished EXCEPT ![r] = PolishFallback(raw[r])]
    /\ pc' = [pc EXCEPT ![r] = "summary"]
    /\ UNCHANGED << filename, copied, path, fs, inode, fd, opened, sent, raw, polishReply,
                    sumInput, sumReply, sumExc, ret, result, atEnd >>

\* generate_summary(polished_text) returns the reply; the handler returns
\* {"original_text": polished_text, "summary": summary_text}.
SummaryOk(r) ==
    /\ pc[r] = "summary"
    /\ log' = [log EXCEPT ![r] = Append(@, "summary")]
    /\ sumInput' = [sumInput EXCEPT ![r] = polished[r]]
    /\ \E reply \in Replies :
          /\ sumReply' = [sumReply EXCEPT ![r] = reply]
          /\ ret' = [ret EXCEPT ![r] =
                Returned(OkPayload(polished[r], SummaryResult(polished[r], reply)))]
    /\ pc' = [pc EXCEPT ![r] = "finally"]
    /\ UNCHANGED << filename, copied, path, fs, inode, fd, opened, sent, raw, polishReply,
                    polished, sumExc, result, atEnd >>

\* generate_summary(polished_text), generate_content raises.
SummaryFails(r) ==
    /\ pc[r] = "summary"
    /\ log' = [log EXCEPT ![r] = Append(@, "summary")]
    /\ sumInput' = [sumInput EXCEPT ![r] = polished[r]]
    /\ \E m \in Msgs :
          /\ sumExc' = [sumExc EXCEPT ![r] = m]
          /\ ret' = [ret EXCEPT ![r] =
                Returned(OkPayload(polished[r], SummaryFallback(m)))]
    /\ pc' = [pc EXCEPT ![r] = "finally"]
    /\ UNCHANGED << filename, copied, path, fs, inode, fd, opened, sent, raw, polishReply,
                    polished, sumReply, result, atEnd >>

\* Mutant: the removal stands at the end of the try block, not in a finally,
\* and is passed over when the except returns.
CleanupOnSuccessOnly(r) ==
    /\ pc[r] = "finally"
    /\ log' = [log EXCEPT ![r] = Append(@, "cleanup")]
    /\ IF Exists(path[r]) /\ "error" \notin DOMAIN ret[r].body
       THEN /\ pc' = [pc EXCEPT ![r] = "remove"]
            /\ UNCHANGED << result, atEnd >>
       ELSE /\ result' = [result EXCEPT ![r] = ret[r]]
            /\ atEnd' = [atEnd EXCEPT ![r] = fs[path[r]]]
            /\ pc' = [pc EXCEPT ![r] = "done"]
    /\ UNCHANGED << filename, copied, path, fs, inode, fd, opened, sent, raw,
                    polishReply, polished, sumInput, sumReply, sumExc, ret >>

\* finally: if os.path.exists(temp_filename)
CleanupCheck(r) ==
    /\ pc[r] = "finally"
    /\ log' = [log EXCEPT ![r] = Append(@, "cleanup")]
    /\ IF Exists(path[r])
       THEN /\ pc' = [pc EXCEPT ![r] = "remove"]
            /\ UNCHANGED << result, atEnd >>
       ELSE /\ result' = [result EXCEPT ![r] = ret[r]]
            /\ atEnd' = [atEnd EXCEPT ![r] = fs[path[r]]]
            /\ pc' = [pc EXCEPT ![r] = "done"]
    /\ UNCHANGED << filename, copied, path, fs, inode, fd, opened, sent, raw, polishReply,
                    polished, sumInput, sumReply, sumExc, ret >>

\* os.remove(temp_filename): an exception raised here replaces the return.
CleanupRemove(r) ==
    /\ pc[r] = "remove"
    /\ IF IsFile(path[r])
       THEN /\ fs' = [fs EXCEPT ![path[r]] = "absent"]
            /\ result' = [result EXCEPT ![r] = ret[r]]
       ELSE /\ result' = [result EXCEPT ![r] =
                  Raised(IF fs[path[r]] = "dir" THEN <<"IsADirectoryError">>
                                                ELSE <<"FileNotFoundError">>)]
            /\ UNCHANGED fs
    /\ atEnd' = [atEnd EXCEPT ![r] = fs'[path[r]]]
    /\ pc' = [pc EXCEPT ![r] = "done"]
    /\ UNCHANGED << filename, copied, path, inode, fd, opened, sent, raw, polishReply,
                    polished, sumInput, sumReply, sumExc, ret, log >>

Next ==
    \E r \in Reqs :
        \/ ComputePath(r)
        \/ OpenForWrite(r)
        \/ CopyUpload(r)
        \/ CopyFails(r)
        \/ OpenForRead(r)
        \/ TranscribeOk(r)
        \/ TranscribeFails(r)
        \/ PolishOk(r)
        \/ PolishFails(r)
        \/ SummaryOk(r)
        \/ SummaryFails(r)
        \/ CleanupCheck(r)
        \/ CleanupRemove(r)

Spec == Init /\ [][Next]_vars

\* ============================================================== properties
InLog(r, ev) == \E i \in 1..Len(log[r]) : log[r][i] = ev

Count(r, ev) == Cardinality({ i \in 1..Len(log[r]) : log[r][i] = ev })

IsDone(r) == pc[r] = "done"

HasReturned(r) == result[r].kind = "returned"

Keys(r) == DOMAIN result[r].body

BothKeys == {"original_text", "summary"}

TranscribeRaised(r) == InLog(r, "transcribe") /\ raw[r] = Nil

PolishRaised(r) == InLog(r, "polish") /\ polishReply[r] = Nil

SummaryRaised(r) == sumExc[r] # Nil

Blanks(n) == [i \in 1..n |-> Blank]

\* t is s without its leading and trailing white space.
IsStripOf(t, s) ==
    /\ \E i \in 0..Len(s) : \E j \in 0..Len(s) : s = Blanks(i) \o t \o Blanks(j)
    /\ t # <<>> => (t[1] # Blank /\ t[Len(t)] # Blank)

\* ---- C1 ----------------------------------------------------------------
\* C1: when the handler has ended, whichever step failed or succeeded, no
\* file is left at the temporary path; if the handler had created the
\* temporary file, nothing at all is at that path at the moment it ends.
C1_TempFileAbsentAtEnd ==
    \A r \in Reqs :
        IsDone(r) =>
            /\ atEnd[r] \notin Reqs
            /\ opened[r] => atEnd[r] = "absent"

\* A handler that wrote its upload, failed in the transcription call, and
\* ended.
C1_Witness ==
    \E r \in Reqs :
        /\ IsDone(r) /\ copied[r] /\ TranscribeRaised(r)
        /\ atEnd[r] = "absent"

\* ---- C2 ----------------------------------------------------------------
\* C2: a returned response has the keys original_text and summary and no
\* others, or the key error and no others.
C2_ResponseShape ==
    \A r \in Reqs :
        HasReturned(r) => (Keys(r) = BothKeys \/ Keys(r) = {"error"})

\* One request answered with the pair, the other with an error.
C2_Witness ==
    \E r1 \in Reqs : \E r2 \in Reqs :
        /\ HasReturned(r1) /\ Keys(r1) = BothKeys
        /\ HasReturned(r2) /\ Keys(r2) = {"error"}

\* ---- C3 ----------------------------------------------------------------
\* C3 as claimed: whichever provider call raised (transcription, polish or
\* summary), the response carries both original_text and summary.
C3_BothKeysAfterAnyProviderFailure ==
    \A r \in Reqs :
        (HasReturned(r) /\ (TranscribeRaised(r) \/ PolishRaised(r) \/ SummaryRaised(r)))
            => BothKeys \subseteq Keys(r)

\* C3 amended: after a failed polish or summary call the response carries
\* both original_text and summary; after a failed transcription call it is
\* {error: message} with the provider's message, and no generation call was
\* made.
C3_BothKeysAfterGenerationFailure ==
    \A r \in Reqs :
        HasReturned(r) =>
            /\ (PolishRaised(r) \/ SummaryRaised(r)) => Keys(r) = BothKeys
            /\ TranscribeRaised(r) =>
                  /\ Keys(r) = {"error"}
                  /\ result[r].body.error \in Msgs

\* One response after a failed transcription, one after both generation
\* calls failed.
C3_Witness ==
    \E r1 \in Reqs : \E r2 \in Reqs :
        /\ HasReturned(r1) /\ TranscribeRaised(r1)
        /\ HasReturned(r2) /\ PolishRaised(r2) /\ SummaryRaised(r2)

\* ---- C4 ----------------------------------------------------------------
\* C4: no failure leaves the handler as an exception: a handler that has
\* ended has returned a payload.
C4_NoFailureEscapes ==
    \A r \in Reqs : IsDone(r) => HasReturned(r)

\* ---- C5 ----------------------------------------------------------------
\* C5 as claimed: for a reply that has the start and end markers, the field
\* returned is the text between the markers.
C5_ExtractsBetweenMarkers ==
    \A r \in Reqs :
        (HasReturned(r) /\ Keys(r) = BothKeys) =>
            /\ (polishReply[r] # Nil /\ HasMarkers(polishReply[r]))
                  => result[r].body.original_text = Between(polishReply[r])
            /\ (sumReply[r] # Nil /\ HasMarkers(sumReply[r]))
                  => result[r].body.summary = Between(sumReply[r])

\* C5 amended: markers in a reply are not interpreted; original_text is the
\* whole polish reply without its leading and trailing white space, summary
\* is the whole summary reply, the markers and the text outside them
\* included.
C5_MarkedReplyReturnedWhole ==
    \A r \in Reqs :
        (HasReturned(r) /\ Keys(r) = BothKeys) =>
            /\ (polishReply[r] # Nil /\ HasMarkers(polishReply[r]))
                  => /\ IsStripOf(result[r].body.original_text, polishReply[r])
                     /\ HasMarkers(result[r].body.original_text)
            /\ (sumReply[r] # Nil /\ HasMarkers(sumReply[r]))
                  => result[r].body.summary = sumReply[r]

\* A response built from two replies with markers and text outside them.
C5_Witness ==
    \E r \in Reqs :
        /\ HasReturned(r) /\ Keys(r) = BothKeys
        /\ polishReply[r] # Nil /\ HasMarkers(polishReply[r])
        /\ Between(polishReply[r]) # Strip(polishReply[r])
        /\ sumReply[r] # Nil /\ HasMarkers(sumReply[r])
        /\ Between(sumReply[r]) # sumReply[r]

\* ---- C6 ----------------------------------------------------------------
\* C6 as claimed: for a reply without markers the fallback values are
\* returned (the input text for original_text) and not the reply.
C6_UnmarkedReplyGivesDefaults ==
    \A r \in Reqs :
        (HasReturned(r) /\ Keys(r) = BothKeys) =>
            /\ (polishReply[r] # Nil /\ ~HasMarkers(polishReply[r]))
                  => result[r].body.original_text = raw[r]
            /\ (sumReply[r] # Nil /\ ~HasMarkers(sumReply[r]))
                  => result[r].body.summary # sumReply[r]

\* C6 amended: a reply without markers is itself returned: original_text is
\* the polish reply without its leading and trailing white space, summary is
\* the summary reply unchanged.
C6_UnmarkedReplyReturned ==
    \A r \in Reqs :
        (HasReturned(r) /\ Keys(r) = BothKeys) =>
            /\ (polishReply[r] # Nil /\ ~HasMarkers(polishReply[r]))
                  => IsStripOf(result[r].body.original_text, polishReply[r])
            /\ (sumReply[r] # Nil /\ ~HasMarkers(sumReply[r]))
                  => result[r].body.summary = sumReply[r]

\* A response built from two replies without markers.
C6_Witness ==
    \E r \in Reqs :
        /\ HasReturned(r) /\ Keys(r) = BothKeys
        /\ polishReply[r] # Nil /\ ~HasMarkers(polishReply[r])
        /\ result[r].body.original_text # raw[r]
        /\ sumReply[r] # Nil /\ ~HasMarkers(sumReply[r])

\* ---- C7 ----------------------------------------------------------------
\* C7: requests with the same filename use the same temporary path (nothing
\* makes it unique), and the bytes of another request's upload are
\* transcribed only by a request with the same temporary path.
C7_SameNameSamePath ==
    \A r1 \in Reqs : \A r2 \in Reqs :
        /\ (pc[r1] # "start" /\ pc[r2] # "start" /\ filename[r1] = filename[r2])
              => path[r1] = path[r2]
        /\ (sent[r1] = r2 /\ r1 # r2) => path[r1] = path[r2]

\* Request r1 transcribed the bytes of r2's upload, and r2 found the file
\* removed by r1's cleanup when it opened it for reading.
C7_Witness ==
    /\ sent["r1"] = "r2"
    /\ IsDone("r1") /\ HasReturned("r1") /\ Keys("r1") = BothKeys
    /\ copied["r2"] /\ ~InLog("r2", "transcribe")
    /\ HasReturned("r2") /\ result["r2"].body = ErrorPayload(<<"FileNotFoundError">>)

\* ---- C8 ----------------------------------------------------------------
\* C8: when the transcription succeeded and the polish call raised, the
\* response's original_text is the raw transcript, the summary call was made
\* with the raw transcript, and the response has no error key.
C8_PolishFailureKeepsTranscript ==
    \A r \in Reqs :
        /\ (PolishRaised(r) /\ pc[r] # "polish") => polished[r] = raw[r]
        /\ (PolishRaised(r) /\ HasReturned(r)) =>
              /\ raw[r] \in Transcripts
              /\ result[r].body.original_text = raw[r]
              /\ InLog(r, "summary") /\ sumInput[r] = raw[r]
              /\ "error" \notin Keys(r)

\* A response after a failed polish call.
C8_Witness ==
    \E r \in Reqs : HasReturned(r) /\ PolishRaised(r) /\ sumReply[r] # Nil

\* ---- C9 ----------------------------------------------------------------
\* C9: when transcription and polish succeeded and the summary call raised,
\* summary is "Error: " followed by the exception's message, original_text is
\* the polished text, and the response has no error key.
C9_SummaryFailureEmbedsError ==
    \A r \in Reqs :
        (HasReturned(r) /\ polishReply[r] # Nil /\ SummaryRaised(r)) =>
            /\ result[r].body.summary = <<"Error: ">> \o sumExc[r]
            /\ sumExc[r] \in Msgs
            /\ result[r].body.original_text = polished[r]
            /\ IsStripOf(polished[r], polishReply[r])
            /\ "error" \notin Keys(r)

\* A response after a failed summary call that followed a polish reply.
C9_Witness ==
    \E r \in Reqs : HasReturned(r) /\ polishReply[r] # Nil /\ SummaryRaised(r)

\* ---- C10 ---------------------------------------------------------------
Rank(ev) ==
    CASE ev = "write" -> 1
      [] ev = "transcribe" -> 2
      [] ev = "polish" -> 3
      [] ev = "summary" -> 4
      [] ev = "cleanup" -> 5

\* C10: within a request the calls come in the order write, transcription,
\* polish, summary, cleanup, each at most once; the summary call gets the
\* result of the polish call; generation is asked for at most twice, and not
\* at all unless the upload was written and the transcription succeeded.
C10_FixedOrder ==
    \A r \in Reqs :
        /\ \A i \in 1..Len(log[r]) : \A j \in 1..Len(log[r]) :
              i < j => Rank(log[r][i]) < Rank(log[r][j])
        /\ InLog(r, "transcribe") => (InLog(r, "write") /\ copied[r])
        /\ InLog(r, "polish") =>
              (InLog(r, "transcribe") /\ copied[r] /\ raw[r] \in Transcripts)
        /\ InLog(r, "summary") => (InLog(r, "polish") /\ sumInput[r] = polished[r])
        /\ Count(r, "polish") + Count(r, "summary") <= 2
        /\ IsDone(r) => log[r][Len(log[r])] = "cleanup"

\* A request that made all five calls, and one whose generation was never
\* asked for because its transcription failed.
C10_Witness ==
    \E r1 \in Reqs : \E r2 \in Reqs :
        /\ IsDone(r1)
        /\ log[r1] = <<"write", "transcribe", "polish", "summary", "cleanup">>
        /\ IsDone(r2) /\ TranscribeRaised(r2)
        /\ log[r2] = <<"write", "transcribe", "cleanup">>

====
